---- MODULE Spec2Model ----
(***************************************************************************)
(* Supervised HMM estimation (construct.py, load_hmm) and Viterbi decoding *)
(* (predictions.py).  Probabilities are exact rationals <<num, den>> in    *)
(* lowest terms with den > 0: 2/4 is <<1, 2>>, 0.0 is <<0, 1>>.            *)
(***************************************************************************)
EXTENDS Integers, Sequences, FiniteSets, TLC

\* ------------------------------------------------------------- bounds
\* Size of a training corpus: the sum over its runs of the longer of the
\* run's two lines (an empty run counts 1).
MaxTokens == 3
\* Size of the corpus load_hmm reads before a viterbi call (same measure).
MaxTrain == 4
\* Length of a test observation sequence handed to viterbi.
MaxT == 2
\* Number of test cases of a prediction job.
MaxTests == 2

\* Label universes of the inputs.
StateLabels == {0, 1, 2}
TrainObs == {5, 6}
TestObs == {5, 6, 7}

\* ------------------------------------------------------------- helpers
Max2(a, b) == IF a >= b THEN a ELSE b
Min2(a, b) == IF a <= b THEN a ELSE b

SeqsUpTo(S, n) == UNION {[1..k -> S] : k \in 0..n}

RECURSIVE SumOver(_, _)
SumOver(f, D) ==
  IF D = {} THEN 0
  ELSE LET x == CHOOSE y \in D : TRUE IN f[x] + SumOver(f, D \ {x})

\* sorted(set): ascending sequence of the elements
RECURSIVE sorted(_)
sorted(S) ==
  IF S = {} THEN <<>>
  ELSE LET m == CHOOSE x \in S : \A y \in S : x <= y
       IN <<m>> \o sorted(S \ {m})

\* {s:i for i, s in enumerate(seq)}: 0-based index of each label
IndexMap(seq) ==
  [x \in {seq[k] : k \in 1..Len(seq)} |->
     (CHOOSE k \in 1..Len(seq) : seq[k] = x) - 1]

SeqSet(seq) == {seq[k] : k \in 1..Len(seq)}

\* exact rationals, kept in lowest terms: a value has one representation
RECURSIVE GCD(_, _)
GCD(a, b) == IF b = 0 THEN a ELSE GCD(b, a % b)

Frac(n, d) ==
  IF n < 0 THEN <<n, d>>
  ELSE LET g == GCD(n, d) IN <<n \div g, d \div g>>

Zero == <<0, 1>>
RMul(a, b) == Frac(a[1] * b[1], a[2] * b[2])
RGt(a, b) == a[1] * b[2] > b[1] * a[2]
REq(a, b) == a[1] * b[2] = b[1] * a[2]
RAdd(a, b) == Frac(a[1] * b[2] + b[1] * a[2], a[2] * b[2])

RECURSIVE RSum(_, _)
RSum(row, n) == IF n < 0 THEN Zero ELSE RAdd(row[n], RSum(row, n - 1))

\* ------------------------------------------------------------- inputs
\* A run is the pair of its two lines: <<states_list, observables_list>>.
RunSize(run) == Max2(1, Max2(Len(run[1]), Len(run[2])))
\* the runs of size at most n
RunsUpTo(n) == IF n < 1 THEN {} ELSE SeqsUpTo(StateLabels, n) \X SeqsUpTo(TrainObs, n)

\* ------------------------------------------------------------- counting
ZeroCounts(D1, D2) == [a \in D1 |-> [b \in D2 |-> 0]]

EmptyTally ==
  [trans_counts |-> ZeroCounts(StateLabels, StateLabels),
   emiss_counts |-> ZeroCounts(StateLabels, TrainObs),
   state_counts |-> [a \in StateLabels |-> 0],
   states_set |-> {},
   obs_set |-> {}]

\* variant: the pair is keyed (next, current)
RECURSIVE CountTransitionsSwapped(_, _, _)
CountTransitionsSwapped(tc, ss, i) ==
  IF i > Len(ss) - 1 THEN tc
  ELSE CountTransitionsSwapped([tc EXCEPT ![ss[i + 1]][ss[i]] = @ + 1], ss, i + 1)

\* for i in range(len(states_seq)-1): trans_counts[s[i]][s[i+1]] += 1
RECURSIVE CountTransitions(_, _, _)
CountTransitions(tc, ss, i) ==
  IF i > Len(ss) - 1 THEN tc
  ELSE CountTransitions([tc EXCEPT ![ss[i]][ss[i + 1]] = @ + 1], ss, i + 1)

\* for s, o in zip(states_seq, obs_seq): emiss_counts[s][o] += 1
RECURSIVE CountEmissions(_, _, _, _)
CountEmissions(ec, ss, os, i) ==
  IF i > Min2(Len(ss), Len(os)) THEN ec
  ELSE CountEmissions([ec EXCEPT ![ss[i]][os[i]] = @ + 1], ss, os, i + 1)

\* ... state_counts[s] += 1 (same zip)
RECURSIVE CountStates(_, _, _, _)
CountStates(sc, ss, os, i) ==
  IF i > Min2(Len(ss), Len(os)) THEN sc
  ELSE CountStates([sc EXCEPT ![ss[i]] = @ + 1], ss, os, i + 1)

\* One iteration of the corpus scan loop.
ScanOne(tally, run) ==
  [trans_counts |-> CountTransitions(tally.trans_counts, run[1], 1),
   emiss_counts |-> CountEmissions(tally.emiss_counts, run[1], run[2], 1),
   state_counts |-> CountStates(tally.state_counts, run[1], run[2], 1),
   states_set |-> tally.states_set \cup SeqSet(run[1]),
   obs_set |-> tally.obs_set \cup SeqSet(run[2])]

RECURSIVE ScanAll(_, _, _)
ScanAll(tally, corpus, k) ==
  IF k > Len(corpus) THEN tally
  ELSE ScanAll(ScanOne(tally, corpus[k]), corpus, k + 1)

\* ------------------------------------------------------------- normalisation
\* variant: the appearance count of the state as the transition total
TotalByAppearance(tally, states, from) == tally.state_counts[from]

TotalOutgoing(tally, states, from) ==
  SumOver(tally.trans_counts[from], SeqSet(states))

TransEntry(tally, states, from, to) ==
  IF TotalOutgoing(tally, states, from) > 0
  THEN Frac(tally.trans_counts[from][to], TotalOutgoing(tally, states, from))
  ELSE Zero

EmissEntry(tally, st, o) ==
  IF tally.state_counts[st] > 0
  THEN Frac(tally.emiss_counts[st][o], tally.state_counts[st])
  ELSE Zero

\* The model built from the counts: sorted label lists, index maps, A and B.
BuildModel(tally) ==
  LET states == sorted(tally.states_set)
      obs == sorted(tally.obs_set)
      N == Len(states)
      M == Len(obs)
  IN [states |-> states,
      obs |-> obs,
      st_idx |-> IndexMap(states),
      ob_idx |-> IndexMap(obs),
      A |-> [i \in 0..(N - 1) |-> [j \in 0..(N - 1) |->
               TransEntry(tally, states, states[i + 1], states[j + 1])]],
      B |-> [i \in 0..(N - 1) |-> [j \in 0..(M - 1) |->
               EmissEntry(tally, states[i + 1], obs[j + 1])]]]

load_hmm(corpus) == BuildModel(ScanAll(EmptyTally, corpus, 1))

NoModel == [states |-> <<>>, obs |-> <<>>, st_idx |-> <<>>, ob_idx |-> <<>>,
            A |-> <<>>, B |-> <<>>]

\* f"{x:.5f}": the value in units of 1e-5, rounded to nearest, ties to even
Format5(x) ==
  LET q == (x[1] * 100000) \div x[2]
      r2 == 2 * ((x[1] * 100000) % x[2])
  IN IF r2 > x[2] \/ (r2 = x[2] /\ q % 2 = 1) THEN q + 1 ELSE q

FormatRow(row, n) == [j \in 1..n |-> Format5(row[j - 1])]

\* output_lines: the N rows of A followed by the N rows of B
OutputLines(m) ==
  LET N == Len(m.states)
      M == Len(m.obs)
  IN [k \in 1..(2 * N) |->
        IF k <= N THEN FormatRow(m.A[k - 1], N)
        ELSE FormatRow(m.B[k - N - 1], M)]

\* ------------------------------------------------------------- viterbi
\* prev_state_chosen = None
None == -1
start_state == 0

\* variant: the start state is not skipped
AllStates(m) == m.states

\* the states a decode may choose, in the iteration order of `states`
Candidates(m) == SelectSeq(m.states, LAMBDA s : s # start_state)

\* A dict is the sequence of its entries in insertion order.
Lookup(d, k) == d[CHOOSE i \in 1..Len(d) : d[i].key = k]

\* predictions.py 76-80
InitRow(m, o) ==
  LET C == Candidates(m)
  IN [k \in 1..Len(C) |->
        [key |-> C[k],
         prob |-> RMul(m.A[m.st_idx[start_state]][m.st_idx[C[k]]],
                       m.B[m.st_idx[C[k]]][m.ob_idx[o]]),
         prev |-> start_state]]

\* predictions.py 94: the probability of reaching curr_s from prev_s
StepProb(m, prevRow, prev_s, curr_s, o) ==
  RMul(RMul(Lookup(prevRow, prev_s).prob, m.A[m.st_idx[prev_s]][m.st_idx[curr_s]]),
       m.B[m.st_idx[curr_s]][m.ob_idx[o]])

\* variant: >= in place of >
BetterOrEqual(prob, max_prob) == RGt(prob, max_prob) \/ REq(prob, max_prob)

\* predictions.py 95: if prob > max_prob
Better(prob, max_prob) == RGt(prob, max_prob)

\* predictions.py 88-97: the inner loop over prev_s, from candidate k on
RECURSIVE BestPrev(_, _, _, _, _, _)
BestPrev(m, prevRow, curr_s, o, k, best) ==
  LET C == Candidates(m)
  IN IF k > Len(C) THEN best
     ELSE LET prob == StepProb(m, prevRow, C[k], curr_s, o)
          IN BestPrev(m, prevRow, curr_s, o, k + 1,
                      IF Better(prob, best.prob)
                      THEN [prob |-> prob, prev |-> C[k]]
                      ELSE best)

\* predictions.py 84-99: dp[t] from dp[t-1]
StepRow(m, prevRow, o) ==
  LET C == Candidates(m)
  IN [k \in 1..Len(C) |->
        LET b == BestPrev(m, prevRow, C[k], o, 1, [prob |-> <<-1, 1>>, prev |-> None])
        IN [key |-> C[k], prob |-> b.prob, prev |-> b.prev]]

\* variant: the last maximal key
RECURSIVE MaxKeyLast(_, _, _)
MaxKeyLast(row, k, best) ==
  IF k > Len(row) THEN row[best].key
  ELSE MaxKeyLast(row, k + 1, IF RGt(row[best].prob, row[k].prob) THEN best ELSE k)

\* predictions.py 103: max(d, key=...) returns the first maximal key
RECURSIVE MaxKey(_, _, _)
MaxKey(row, k, best) ==
  IF k > Len(row) THEN row[best].key
  ELSE MaxKey(row, k + 1, IF RGt(row[k].prob, row[best].prob) THEN k ELSE best)

\* variant: the first key, whatever its score
first_state(row) == row[1].key

final_state(row) == MaxKey(row, 2, 1)

\* variant: the back pointer of dp[0] is followed too
RECURSIVE BacktrackToStart(_, _, _)
BacktrackToStart(table, tt, state) ==
  IF tt = 1 THEN <<Lookup(table[1], state).prev, state>>
  ELSE BacktrackToStart(table, tt - 1, Lookup(table[tt], state).prev) \o <<state>>

\* predictions.py 105-110: follow the back pointers, then reverse
RECURSIVE Backtrack(_, _, _)
Backtrack(table, tt, state) ==
  IF tt = 1 THEN <<state>>
  ELSE Backtrack(table, tt - 1, Lookup(table[tt], state).prev) \o <<state>>

\* variant: only the first label is looked up
LookupFailsFirst(m, o) == Len(o) > 0 /\ o[1] \notin DOMAIN m.ob_idx

\* predictions.py 71: obs_ids = [ob_idx[o] for o in obs_seq] raises KeyError
LookupFails(m, o) == \E i \in 1..Len(o) : o[i] \notin DOMAIN m.ob_idx

\* predictions.py 76-80: the exception the initialisation loop raises, if any
InitError(m, o) ==
  IF Len(Candidates(m)) = 0 THEN "none"
  ELSE IF start_state \notin DOMAIN m.st_idx THEN "KeyError"
  ELSE IF Len(o) = 0 THEN "IndexError"
  ELSE "none"

\* predictions.py 102-103: dp[-1] on an empty list, max() of an empty dict
FinalError(table) ==
  IF Len(table) = 0 THEN "IndexError"
  ELSE IF Len(table[Len(table)]) = 0 THEN "ValueError"
  ELSE "none"

\* dp[0..t-1] of a call whose lookups and initialisation succeed
RECURSIVE DpTable(_, _, _)
DpTable(m, o, t) ==
  IF t = 0 THEN <<>>
  ELSE IF t = 1 THEN <<IF Len(Candidates(m)) = 0 THEN <<>> ELSE InitRow(m, o[1])>>
  ELSE LET before == DpTable(m, o, t - 1)
       IN Append(before, StepRow(m, before[t - 1], o[t]))

\* predictions.py 66-111: the whole call, as [err, path]
viterbi(o, m) ==
  IF LookupFails(m, o) THEN [err |-> "KeyError", path |-> <<>>]
  ELSE IF InitError(m, o) # "none" THEN [err |-> InitError(m, o), path |-> <<>>]
  ELSE LET table == DpTable(m, o, Len(o))
       IN IF FinalError(table) # "none"
          THEN [err |-> FinalError(table), path |-> <<>>]
          ELSE [err |-> "none",
                path |-> Backtrack(table, Len(table), final_state(table[Len(table)]))]

\* ------------------------------------------------------------- result lines
Digits == <<"0", "1", "2", "3", "4", "5", "6", "7", "8", "9">>

\* str(n)
RECURSIVE Str(_)
Str(n) ==
  IF n < 0 THEN <<"-">> \o Str(0 - n)
  ELSE IF n < 10 THEN <<Digits[n + 1]>>
  ELSE Str(n \div 10) \o <<Digits[(n % 10) + 1]>>

\* " ".join(map(str, best_path)) + "\n", as the sequence of its characters
RECURSIVE JoinStr(_)
JoinStr(p) ==
  IF Len(p) = 0 THEN <<>>
  ELSE IF Len(p) = 1 THEN Str(p[1])
  ELSE Str(p[1]) \o <<" ">> \o JoinStr(Tail(p))

ResultLine(p) == JoinStr(p) \o <<"\n">>

\* variant: the line is put in front
PrependResult(results, line) == <<line>> \o results

\* predictions.py 141: results.append(...)
AddResult(results, line) == Append(results, line)

\* The datasets and the test-case lines of the prediction jobs explored.
JobCorpora ==
  { << <<<<0, 1, 2>>, <<5, 5, 6>> >> >>,
    << <<<<0, 1>>, <<5, 5>> >>, <<<<0, 2>>, <<5, 6>> >> >>,
    << <<<<0, 0, 1>>, <<5, 6, 6>> >>, <<<<2, 1>>, <<6, 5>> >> >>,
    << <<<<1, 2>>, <<5, 6>> >> >>,
    << <<<<0>>, <<5>> >> >> }

\* A test case is its observation line (its length line L is read and not
\* used): predictions.py 121-122 drops blank lines, so the line an iteration
\* reads always holds a token; a line with a token that is no integer is
\* malformed.
JobLines ==
  [malformed : {FALSE}, seq : (SeqsUpTo(TestObs, MaxT) \ {<<>>})]
    \cup {[malformed |-> TRUE, seq |-> <<>>]}

NoFile == [written |-> FALSE, lines |-> <<>>]

\* ------------------------------------------------------------- state
VARIABLES
  pc,            \* position of the running program
  lines,         \* construct.py: the runs of the dataset file read so far
  used,          \* size of the corpus read so far
  tally,         \* the frequency counters and label sets
  hmm,           \* the estimated model (states, obs, A, B, st_idx, ob_idx)
  out_file,      \* the output file: whether it was written, and its lines
  obs_seq,       \* viterbi: the observation sequence being decoded
  dp,            \* viterbi: the rows dp[0..t-1] filled so far
  path,          \* viterbi: the returned path
  err,           \* the exception that ended the program, or "none"
  total_tests,   \* predictions.py main: K
  tests,         \* predictions.py main: the test-case lines read so far
  results        \* predictions.py main: the result lines collected so far

vars == <<pc, lines, used, tally, hmm, out_file, obs_seq, dp, path, err,
          total_tests, tests, results>>

vitVars == <<obs_seq, dp, path, err>>
jobVars == <<total_tests, tests, results>>

Start(p) ==
  /\ pc = p
  /\ lines = <<>>
  /\ used = 0
  /\ tally = EmptyTally
  /\ hmm = NoModel
  /\ out_file = NoFile
  /\ obs_seq = <<>>
  /\ dp = <<>>
  /\ path = <<>>
  /\ err = "none"
  /\ total_tests = 0
  /\ tests = <<>>
  /\ results = <<>>

\* ------------------------------------------------------------- construct.py
ConstructInit == Start("scan")

\* construct.py 27-47: one iteration of the scan loop, on the next run of the file
ScanRun ==
  /\ pc = "scan"
  /\ \E run \in RunsUpTo(MaxTokens - used) :
       /\ tally' = ScanOne(tally, run)
       /\ lines' = Append(lines, run)
       /\ used' = used + RunSize(run)
  /\ UNCHANGED <<pc, hmm, out_file, vitVars, jobVars>>

\* construct.py 49-84: index maps and both matrices
Normalise ==
  /\ pc = "scan"
  /\ hmm' = BuildModel(tally)
  /\ pc' = "write"
  /\ UNCHANGED <<lines, used, tally, out_file, vitVars, jobVars>>

\* construct.py 86-95: render and write the output file
WriteMatrices ==
  /\ pc = "write"
  /\ out_file' = [written |-> TRUE, lines |-> OutputLines(hmm)]
  /\ pc' = "done"
  /\ UNCHANGED <<lines, used, tally, hmm, vitVars, jobVars>>

ConstructNext == ScanRun \/ Normalise \/ WriteMatrices

SpecConstruct == ConstructInit /\ [][ConstructNext]_vars

\* ------------------------------------------------------------- load_hmm, then viterbi
ViterbiInit == Start("load")

\* predictions.py 20-34: one iteration of load_hmm's scan loop
LoadRun ==
  /\ pc = "load"
  /\ \E run \in RunsUpTo(MaxTrain - used) :
       /\ tally' = ScanOne(tally, run)
       /\ used' = used + RunSize(run)
  /\ UNCHANGED <<pc, lines, hmm, out_file, vitVars, jobVars>>

\* predictions.py 36-63: the model load_hmm returns; its counters are locals
LoadBuild ==
  /\ pc = "load"
  /\ hmm' = BuildModel(tally)
  /\ tally' = EmptyTally
  /\ used' = 0
  /\ pc' = "call"
  /\ UNCHANGED <<lines, out_file, vitVars, jobVars>>

\* predictions.py 66-73: viterbi is called; obs_ids looks every label up
VitLookup ==
  /\ pc = "call"
  /\ \E o \in SeqsUpTo(TestObs, MaxT) :
       /\ obs_seq' = o
       /\ IF LookupFails(hmm, o)
          THEN pc' = "failed" /\ err' = "KeyError"
          ELSE pc' = "v_init" /\ err' = err
  /\ UNCHANGED <<lines, used, tally, hmm, out_file, dp, path, jobVars>>

\* predictions.py 75-80: dp[0]
VitInit ==
  /\ pc = "v_init"
  /\ IF InitError(hmm, obs_seq) # "none"
     THEN pc' = "failed" /\ err' = InitError(hmm, obs_seq) /\ dp' = dp
     ELSE pc' = "v_step" /\ err' = err /\ dp' = DpTable(hmm, obs_seq, Min2(1, Len(obs_seq)))
  /\ UNCHANGED <<lines, used, tally, hmm, out_file, obs_seq, path, jobVars>>

\* predictions.py 83-99: one iteration of the loop over t
VitStep ==
  /\ pc = "v_step"
  /\ Len(dp) < Len(obs_seq)
  /\ dp' = Append(dp, StepRow(hmm, dp[Len(dp)], obs_seq[Len(dp) + 1]))
  /\ UNCHANGED <<pc, lines, used, tally, hmm, out_file, obs_seq, path, err, jobVars>>

\* predictions.py 101-111: final state, back pointers, return
VitBacktrack ==
  /\ pc = "v_step"
  /\ Len(dp) = Len(obs_seq)
  /\ IF FinalError(dp) # "none"
     THEN pc' = "failed" /\ err' = FinalError(dp) /\ path' = path
     ELSE /\ pc' = "returned"
          /\ err' = err
          /\ path' = Backtrack(dp, Len(dp), final_state(dp[Len(dp)]))
  /\ UNCHANGED <<lines, used, tally, hmm, out_file, obs_seq, dp, jobVars>>

ViterbiNext == LoadRun \/ LoadBuild \/ VitLookup \/ VitInit \/ VitStep \/ VitBacktrack

SpecViterbi == ViterbiInit /\ [][ViterbiNext]_vars

\* ------------------------------------------------------------- predictions.py main
JobInit == Start("job_load")

\* predictions.py 126-130: load the model, read the number of test cases
JobLoad ==
  /\ pc = "job_load"
  /\ \E corpus \in JobCorpora : hmm' = load_hmm(corpus)
  /\ \E K \in 0..MaxTests : total_tests' = K
  /\ pc' = "job_loop"
  /\ UNCHANGED <<lines, used, tally, out_file, vitVars, tests, results>>

\* predictions.py 134-141: one iteration of the loop over the test cases
JobDecode ==
  /\ pc = "job_loop"
  /\ Len(tests) < total_tests
  /\ \E line \in JobLines :
       /\ tests' = Append(tests, line)
       /\ IF line.malformed
          THEN pc' = "failed" /\ err' = "ValueError" /\ results' = results
          ELSE LET r == viterbi(line.seq, hmm)
               IN IF r.err # "none"
                  THEN pc' = "failed" /\ err' = r.err /\ results' = results
                  ELSE /\ pc' = pc
                       /\ err' = err
                       /\ results' = AddResult(results, ResultLine(r.path))
  /\ UNCHANGED <<lines, used, tally, hmm, out_file, obs_seq, dp, path, total_tests>>

\* predictions.py 143-145: write every collected line
JobWrite ==
  /\ pc = "job_loop"
  /\ Len(tests) = total_tests
  /\ out_file' = [written |-> TRUE, lines |-> results]
  /\ pc' = "done"
  /\ UNCHANGED <<lines, used, tally, hmm, vitVars, jobVars>>

JobNext == JobLoad \/ JobDecode \/ JobWrite

SpecJob == JobInit /\ [][JobNext]_vars

\* ------------------------------------------------------------- properties
One == <<1, 1>>

\* Adjacent positions (t, t+1) inside a single run of the file with s_t = i, s_t+1 = j.
TransPositions(i, j) ==
  {rt \in UNION {{<<r, t>> : t \in 1..(Len(lines[r][1]) - 1)} : r \in 1..Len(lines)} :
     lines[rt[1]][1][rt[2]] = i /\ lines[rt[1]][1][rt[2] + 1] = j}

count(i, j) == Cardinality(TransPositions(i, j))

total_out(i) == Cardinality(UNION {TransPositions(i, k) : k \in StateLabels})

\* Aligned positions of a run (both lines have a token there) where the state is i.
EmitPositions(i) ==
  {rt \in UNION {{<<r, t>> : t \in 1..Min2(Len(lines[r][1]), Len(lines[r][2]))} :
                   r \in 1..Len(lines)} :
     lines[rt[1]][1][rt[2]] = i}

Estimated == pc \in {"write", "done"}

RowIsZero(row) == \A j \in DOMAIN row : row[j][1] = 0

RowSumsToOne(row, n) == REq(RSum(row, n - 1), One)

\* C4: after estimation every row of A sums to exactly 1 when its state has a
\* counted outgoing transition and is all zero when it has none; every row of B
\* sums to exactly 1 when its state has a counted emission and is all zero when
\* it has none.
C4_RowStochastic ==
  Estimated =>
    \A i \in DOMAIN hmm.A :
      LET s == hmm.states[i + 1]
      IN /\ IF total_out(s) > 0
            THEN RowSumsToOne(hmm.A[i], Len(hmm.states))
            ELSE RowIsZero(hmm.A[i])
         /\ IF EmitPositions(s) # {}
            THEN RowSumsToOne(hmm.B[i], Len(hmm.obs))
            ELSE RowIsZero(hmm.B[i])

\* A model with a row of A holding two non-zero entries, a zero row of A, and a
\* row of B holding two non-zero entries.
C4_Witness ==
  /\ pc = "done"
  /\ \E i \in DOMAIN hmm.A : \E j, k \in DOMAIN hmm.A[i] :
       j # k /\ hmm.A[i][j][1] > 0 /\ hmm.A[i][k][1] > 0
  /\ \E i \in DOMAIN hmm.A : RowIsZero(hmm.A[i])
  /\ \E i \in DOMAIN hmm.B : \E j, k \in DOMAIN hmm.B[i] :
       j # k /\ hmm.B[i][j][1] > 0 /\ hmm.B[i][k][1] > 0

MismatchedRun == \E r \in 1..Len(lines) : Len(lines[r][1]) # Len(lines[r][2])

\* C6: estimation on a corpus holding a run whose state and observation
\* sequences differ in length builds no matrices and writes no output file.
C6_MismatchIsFatal ==
  MismatchedRun => (hmm = NoModel /\ out_file = NoFile)

\* C9: A[i][j] = count(i,j) / total_out_i whenever total_out_i > 0, the counts
\* taken over adjacent positions inside single runs only.
C9_TransitionEstimate ==
  Estimated =>
    \A i, j \in SeqSet(hmm.states) :
      total_out(i) > 0 =>
        REq(hmm.A[hmm.st_idx[i]][hmm.st_idx[j]], <<count(i, j), total_out(i)>>)

\* Two runs, the first ending in i and the second starting with j, where i has
\* an outgoing transition but none to j: the run boundary is not counted.
C9_Witness ==
  /\ pc = "done"
  /\ Len(lines) = 2
  /\ Len(lines[1][1]) > 1
  /\ Len(lines[2][1]) > 0
  /\ LET i == lines[1][1][Len(lines[1][1])]
         j == lines[2][1][1]
     IN /\ total_out(i) > 0
        /\ count(i, j) = 0
        /\ hmm.A[hmm.st_idx[i]][hmm.st_idx[j]][1] = 0

\* ---- viterbi
T == Len(obs_seq)
S == Candidates(hmm)
Known(o) == o \in SeqSet(hmm.obs)
EntryA(p, s) == hmm.A[hmm.st_idx[p]][hmm.st_idx[s]]
EntryB(s, o) == hmm.B[hmm.st_idx[s]][hmm.ob_idx[o]]

\* A[0][q1]*B[q1][o1] * prod_{t>1} A[q_t-1][q_t]*B[q_t][o_t] of the first t steps
RECURSIVE JointProb(_, _)
JointProb(q, t) ==
  IF t = 1 THEN RMul(EntryA(start_state, q[1]), EntryB(q[1], obs_seq[1]))
  ELSE RMul(JointProb(q, t - 1),
            RMul(EntryA(q[t - 1], q[t]), EntryB(q[t], obs_seq[t])))

WellPosed ==
  /\ start_state \in SeqSet(hmm.states)
  /\ Len(S) > 0
  /\ T > 0
  /\ \A i \in 1..T : Known(obs_seq[i])

\* C1: when the state space holds label 0 and another state and the sequence is
\* non-empty and over the alphabet, viterbi returns a path, and no path over the
\* candidate states has a strictly larger joint probability than it.
C1_MostProbablePath ==
  /\ (pc = "failed" => ~WellPosed)
  /\ (pc = "returned" =>
        LET best == JointProb(path, T)
        IN \A q \in [1..T -> SeqSet(S)] : ~RGt(JointProb(q, T), best))

\* A returned two-step path of non-zero probability that beats a path of
\* probability zero.
C1_Witness ==
  /\ pc = "returned"
  /\ T = 2
  /\ JointProb(path, T)[1] > 0
  /\ \E q \in [1..T -> SeqSet(S)] : JointProb(q, T)[1] = 0

\* C2: a returned path is as long as the observation sequence passed in.
C2_PathLength == pc = "returned" => Len(path) = Len(obs_seq)

C2_Witness == pc = "returned" /\ Len(obs_seq) = 2 /\ Len(S) = 2

\* C3: label 0 occurs at no position of a returned path.
C3_SentinelExcluded == pc = "returned" => \A i \in 1..Len(path) : path[i] # start_state

\* A path returned for a length-1 sequence by a model trained on runs in which
\* state 0 is entered from another state and emits.
C3_Witness ==
  /\ pc = "returned"
  /\ Len(obs_seq) = 1
  /\ \E x \in SeqSet(S) : EntryA(x, start_state)[1] > 0
  /\ \E o \in SeqSet(hmm.obs) : EntryB(start_state, o)[1] > 0

Called == pc \notin {"load", "call"}

\* C5: a call whose sequence holds, at any position, a label outside the
\* alphabet ends in the lookup's error: no score is computed, no path returned.
C5_UnknownObservation ==
  (Called /\ \E i \in 1..T : ~Known(obs_seq[i])) =>
    (pc = "failed" /\ err = "KeyError" /\ dp = <<>> /\ path = <<>>)

\* The unknown label is the second of the sequence; the first is known and the
\* model would otherwise decode.
C5_Witness ==
  /\ pc = "failed"
  /\ T = 2
  /\ Known(obs_seq[1])
  /\ ~Known(obs_seq[2])
  /\ start_state \in SeqSet(hmm.states)
  /\ Len(S) > 0

\* The first p, in the order of the sequence C, whose value f(p) no other exceeds.
EarliestMax(C, f(_)) ==
  LET v == [k \in 1..Len(C) |-> f(C[k])]
  IN C[CHOOSE k \in 1..Len(C) :
         /\ \A j \in 1..Len(C) : ~RGt(v[j], v[k])
         /\ \A j \in 1..(k - 1) : RGt(v[k], v[j])]

\* score[t-1][p] * A[p][s], for the 1-based row k = t + 1
Reach(k, p, s) == RMul(Lookup(dp[k - 1], p).prob, EntryA(p, s))

\* C8 as stated: every back pointer of a step t >= 1 is the earliest maximiser
\* of score[t-1][p] * A[p][s], also when B[s][o_t] is 0.
C8_AsStated ==
  \A k \in 2..Len(dp) : \A i \in 1..Len(dp[k]) :
    LET s == dp[k][i].key
        ReachS(p) == Reach(k, p, s)
    IN dp[k][i].prev = EarliestMax(S, ReachS)

\* C8 amended: every back pointer of a step t >= 1 is the earliest maximiser of
\* score[t-1][p] * A[p][s] * B[s][o_t]: the earliest maximiser of
\* score[t-1][p] * A[p][s] when B[s][o_t] > 0, the first state of S when it is 0.
C8_BackPointer ==
  \A k \in 2..Len(dp) : \A i \in 1..Len(dp[k]) :
    LET s == dp[k][i].key
        b == EntryB(s, obs_seq[k])
        ReachS(p) == Reach(k, p, s)
        ProbS(p) == RMul(Reach(k, p, s), b)
    IN /\ dp[k][i].prev = EarliestMax(S, ProbS)
       /\ b[1] > 0 => dp[k][i].prev = EarliestMax(S, ReachS)
       /\ b[1] = 0 => dp[k][i].prev = S[1]

\* One step holds both cases: a state with B > 0 whose back pointer is a later
\* state of S of non-zero reach, and a state with B = 0 that a later state of S
\* reaches with non-zero value.
C8_Witness ==
  /\ Len(dp) >= 2
  /\ \E i \in 1..Len(dp[2]) :
       /\ EntryB(dp[2][i].key, obs_seq[2])[1] > 0
       /\ dp[2][i].prev # S[1]
       /\ Reach(2, dp[2][i].prev, dp[2][i].key)[1] > 0
  /\ \E i \in 1..Len(dp[2]) :
       /\ EntryB(dp[2][i].key, obs_seq[2])[1] = 0
       /\ Reach(2, S[2], dp[2][i].key)[1] > 0

\* C10: the last state of a returned path has the maximal final score, and every
\* earlier state of S has a strictly smaller one.
C10_FinalState ==
  pc = "returned" =>
    LET row == dp[Len(dp)]
        last == Lookup(row, path[Len(path)])
    IN /\ \A i \in 1..Len(row) : ~RGt(row[i].prob, last.prob)
       /\ \A i \in 1..Len(row) : row[i].key < last.key => RGt(last.prob, row[i].prob)

\* Two states tie for a non-zero maximal final score.
C10_Witness ==
  /\ pc = "returned"
  /\ Len(dp[Len(dp)]) = 2
  /\ dp[Len(dp)][1].prob[1] > 0
  /\ REq(dp[Len(dp)][1].prob, dp[Len(dp)][2].prob)

\* ---- the prediction job
\* C7: the output is written only once all K test cases are decoded; a job that
\* failed has written nothing; a finished job's output has K lines, line k the
\* decoded path of the k-th test case.
C7_OutputAfterAll ==
  /\ out_file.written => (pc = "done" /\ Len(tests) = total_tests)
  /\ pc = "failed" => out_file = NoFile
  /\ pc = "done" =>
       /\ Len(out_file.lines) = total_tests
       /\ \A k \in 1..total_tests :
            /\ ~tests[k].malformed
            /\ viterbi(tests[k].seq, hmm).err = "none"
            /\ out_file.lines[k] = ResultLine(viterbi(tests[k].seq, hmm).path)

\* A finished job of two test cases whose paths differ in length.
C7_Witness ==
  /\ pc = "done"
  /\ total_tests = 2
  /\ Len(out_file.lines) = 2
  /\ Len(out_file.lines[1]) < Len(out_file.lines[2])
====
